---------------------------- MODULE Spec2Model ----------------------------
(***************************************************************************)
(* A model of DatabaseStream (src/src/database_stream/db_stream.py) and of *)
(* its SQLite adapter SqliteDatabaseStream (src/sqlite_db_stream.py).      *)
(*                                                                         *)
(* The backing table is a relation: a set of rows id, content, session_ts, *)
(* hostname, pid.  A stream object is a record of the fields __init__      *)
(* sets.  Every public method is one action; the store statements a method *)
(* issues (each commits on its own) are part of that action, as the code   *)
(* is single-threaded and synchronous.  Text is modelled by TLA+ strings,  *)
(* so len(), slicing and "".join act on real characters.                   *)
(*                                                                         *)
(* The store can fail a statement of _mark_consumed, and the cursor and    *)
(* the connection of a stream can break, only in the specifications that   *)
(* say so (SpecFail, SpecBroken); elsewhere every statement succeeds.      *)
(***************************************************************************)
EXTENDS Integers, Sequences, FiniteSets, TLC

(* ------------------------------ bounds -------------------------------- *)

\* write and an outside INSERT add a row only while the table holds fewer rows.
MaxRows == 2

\* Most rows of the table a lone reader is started on.
MaxInitRows == 3

\* Stream objects constructed in one behaviour.
MaxStreams == 2

\* datetime.datetime.now() returns a value in 1..MaxClock, never an earlier one
\* than it returned before.
MaxClock == 1

\* size / limit / hint arguments range over -1..MaxArg.
MaxArg == 2

(* ----------------------------- the domain ----------------------------- *)

\* SQL NULL in the session_ts and pid columns (timestamps and pids are >= 1).
NULL == 0

\* SQL NULL in the hostname column.
NULLTEXT == "NULL"

\* Text payloads: empty, one character, two characters.
Contents == {"", "a", "bc"}

\* The mode argument of the constructor: 'r', 'w', or anything else.
Modes == {"r", "w", "x"}

Args == -1 .. MaxArg

Streams == 1 .. MaxStreams

\* socket.gethostname() in the process that constructs stream s.
gethostname(s) == IF s <= 2 THEN "hostA" ELSE "hostB"

\* os.getpid() in the process that constructs stream s.
getpid(s) == IF s = 2 THEN 2 ELSE 1

VARIABLES
    table,      \* the backing table: a set of rows
    streams,    \* stream object -> its fields
    now,        \* the latest value datetime.datetime.now() has returned
    scoped,     \* stream object -> the caller is inside a with-block on it
    ret,        \* the last call: who, what, outcome, returned value
    delivered,  \* stream object -> the ids of the rows it has returned so far
    unconsumed_at_init,
                \* stream object -> the ids of the rows that had session_ts NULL
                \* when its constructor ran
    written,    \* stream object -> the arguments of its successful writes, in call order
    faults      \* the statement of _mark_consumed the store is about to fail, if any

vars == <<table, streams, now, scoped, ret, delivered, unconsumed_at_init, written, faults>>

(* ------------------------- the store adapter -------------------------- *)

\* AUTOINCREMENT: one more than the largest id in the table (rows are never deleted).
NextId(tbl) ==
    IF tbl = {} THEN 1
    ELSE (CHOOSE r \in tbl : \A q \in tbl : q.id <= r.id).id + 1

\* OrderById with the ORDER BY clause lost: the store answers newest first.
RECURSIVE NewestFirst(_)
NewestFirst(rows) ==
    IF rows = {} THEN <<>>
    ELSE LET m == CHOOSE r \in rows : \A q \in rows : q.id <= r.id
         IN  <<m>> \o NewestFirst(rows \ {m})

\* ORDER BY id.
RECURSIVE OrderById(_)
OrderById(rows) ==
    IF rows = {} THEN <<>>
    ELSE LET m == CHOOSE r \in rows : \A q \in rows : r.id <= q.id
         IN  <<m>> \o OrderById(rows \ {m})

\* _fetch_unconsumed with the WHERE clause lost.
FetchEveryRow(tbl) ==
    OrderById({ [id |-> r.id, content |-> r.content] : r \in tbl })

\* SELECT id, content FROM t WHERE session_ts IS NULL ORDER BY id; fetchall().
_fetch_unconsumed(tbl) ==
    OrderById({ [id |-> r.id, content |-> r.content] :
                    r \in {q \in tbl : q.session_ts = NULL} })

\* _mark_consumed with AND session_ts IS NULL in the WHERE clause.
MarkIfUnconsumed(tbl, st, row_id) ==
    { IF r.id = row_id /\ r.session_ts = NULL
        THEN [r EXCEPT !.session_ts = st.session_ts,
                       !.hostname = st.hostname,
                       !.pid = st.pid]
        ELSE r : r \in tbl }

\* _mark_consumed with the UPDATE lost.
MarkNothing(tbl, st, row_id) == tbl

\* UPDATE t SET session_ts = ?, hostname = ?, pid = ? WHERE id = ?; commit.
_mark_consumed(tbl, st, row_id) ==
    { IF r.id = row_id
        THEN [r EXCEPT !.session_ts = st.session_ts,
                       !.hostname = st.hostname,
                       !.pid = st.pid]
        ELSE r : r \in tbl }

\* _write_record with the session columns left out of the INSERT.
WriteRecordUnstamped(tbl, st, content) ==
    tbl \cup { [id |-> NextId(tbl), content |-> content,
                session_ts |-> NULL, hostname |-> NULLTEXT, pid |-> NULL] }

\* INSERT INTO t (content, session_ts, hostname, pid) VALUES (?, ?, ?, ?); commit.
_write_record(tbl, st, content) ==
    tbl \cup { [id |-> NextId(tbl), content |-> content,
                session_ts |-> st.session_ts,
                hostname |-> st.hostname, pid |-> st.pid] }

\* No statement is about to fail.
NoFault == [kind |-> "none", id |-> 0]

\* The cursor and the connection of a stream can run a statement.
Usable(st) == st.cursor = "open" /\ st.conn = "open"

\* How _mark_consumed(row_id) ends on stream st: "ok"; "execute" when
\* cursor.execute raises, and the row is not updated; "commit" when
\* conn.commit raises, and the update stays in the connection's open
\* transaction, which other connections do not see.
MarkOutcome(st, row_id) ==
    IF ~Usable(st) THEN "execute"
    ELSE IF faults.id = row_id THEN faults.kind
    ELSE "ok"

\* conn.commit(): the updates of the connection's open transaction reach the table.
Commit(tbl, st) ==
    { IF r.id \in st.pending
        THEN [r EXCEPT !.session_ts = st.session_ts,
                       !.hostname = st.hostname,
                       !.pid = st.pid]
        ELSE r : r \in tbl }

\* _db_close giving up at the first release that raises.
DbCloseGivesUp(st) ==
    IF st.cursor # "open" THEN st
    ELSE [st EXCEPT !.cursor = "closed",
                    !.conn = IF @ = "open" THEN "closed" ELSE @,
                    !.pending = IF st.conn = "open" THEN {} ELSE @]

\* cursor.close() and conn.close(), each in its own try/except-pass: a broken
\* resource stays as it is, the other one is released all the same.  Closing
\* the connection drops its open transaction.
_db_close(st) ==
    [st EXCEPT !.cursor = IF @ = "open" THEN "closed" ELSE @,
               !.conn = IF @ = "open" THEN "closed" ELSE @,
               !.pending = IF st.conn = "open" THEN {} ELSE @]

(* --------------------------- stream objects --------------------------- *)

\* A slot no constructor has run on yet.
NoStream ==
    [constructed |-> FALSE, mode |-> "r", session_ts |-> NULL,
     hostname |-> NULLTEXT, pid |-> NULL, closed |-> FALSE,
     row_iterator |-> <<>>, db_closes |-> 0,
     cursor |-> "none", conn |-> "none", pending |-> {}]

\* readable without the test of the mode.
ReadableInAnyMode(st) == ~st.closed

readable(st) == (st.mode = "r") /\ ~st.closed

writable(st) == (st.mode = "w") /\ ~st.closed

\* "".join(chunks)
RECURSIVE join(_)
join(chunks) ==
    IF chunks = <<>> THEN "" ELSE Head(chunks) \o join(Tail(chunks))

\* content[:limit] returning the whole content.
TruncateNothing(content, limit) == content

\* content[:limit] for limit >= 0
Truncate(content, limit) ==
    SubSeq(content, 1, IF limit < Len(content) THEN limit ELSE Len(content))

\* The record of a call: the stream, the method, whether the stream was closed
\* when the call began, "ok" or the exception raised, and the value returned.
Call(s, op, outcome, value) ==
    [s |-> s, op |-> op,
     was_closed |-> IF s \in Streams THEN streams[s].closed ELSE FALSE,
     outcome |-> outcome, value |-> value]

\* A call that raises exc before it touches anything.
Raise(s, op, exc) ==
    /\ ret' = Call(s, op, exc, "")
    /\ UNCHANGED <<table, streams, now, scoped, delivered, unconsumed_at_init, written, faults>>

\* The ids of a sequence of rows.
Ids(rows) == [i \in DOMAIN rows |-> rows[i].id]

\* The contents of a sequence of rows.
Texts(rows) == [i \in DOMAIN rows |-> rows[i].content]

\* The table after every row of a sequence has been marked consumed by st.
RECURSIVE MarkAll(_, _, _)
MarkAll(tbl, st, rows) ==
    IF rows = <<>> THEN tbl
    ELSE MarkAll(_mark_consumed(tbl, st, Head(rows).id), st, Tail(rows))

\* read_loop stopping only once the length exceeds size.
RECURSIVE ReadLoopPastSize(_, _, _, _)
ReadLoopPastSize(rows, size, taken, total_chars) ==
    IF taken = Len(rows) THEN taken
    ELSE LET content == rows[taken + 1].content
             total   == total_chars + Len(content)
         IN  IF size >= 0 /\ total > size
               THEN taken + 1
               ELSE ReadLoopPastSize(rows, size, taken + 1, total)

\* The for-loop of read(): how many rows of the iterator it takes.
RECURSIVE read_loop(_, _, _, _)
read_loop(rows, size, taken, total_chars) ==
    IF taken = Len(rows) THEN taken
    ELSE LET content == rows[taken + 1].content
             total   == total_chars + Len(content)
         IN  IF size >= 0 /\ total >= size
               THEN taken + 1
               ELSE read_loop(rows, size, taken + 1, total)

\* readlines_loop with io.IOBase's convention that a hint of 0 means no limit.
RECURSIVE ReadlinesLoopZeroIsAll(_, _, _, _)
ReadlinesLoopZeroIsAll(rows, hint, taken, total) ==
    IF taken = Len(rows) THEN taken
    ELSE LET content == rows[taken + 1].content
             total2  == total + Len(content)
         IN  IF 0 < hint /\ hint <= total2
               THEN taken + 1
               ELSE ReadlinesLoopZeroIsAll(rows, hint, taken + 1, total2)

\* The for-loop of readlines(): how many rows of the iterator it takes.
RECURSIVE readlines_loop(_, _, _, _)
readlines_loop(rows, hint, taken, total) ==
    IF taken = Len(rows) THEN taken
    ELSE LET content == rows[taken + 1].content
             total2  == total + Len(content)
         IN  IF 0 <= hint /\ hint <= total2
               THEN taken + 1
               ELSE readlines_loop(rows, hint, taken + 1, total2)

\* Rest with a live cursor: the rows that are unconsumed now and come after
\* the last row pulled.
RestRequeried(rows, n) ==
    LET last == IF n = 0 THEN 0 ELSE rows[n].id
    IN  SelectSeq(_fetch_unconsumed(table), LAMBDA r : r.id > last)

\* iter(rows) after n calls of next(): what is left of the list fetched at
\* construction.
Rest(rows, n) == SubSeq(rows, n + 1, Len(rows))

\* The first of rows whose _mark_consumed raises on stream st; 0 when none does.
FailsAt(st, rows) ==
    IF \E i \in DOMAIN rows : MarkOutcome(st, rows[i].id) # "ok"
      THEN CHOOSE i \in DOMAIN rows :
              /\ MarkOutcome(st, rows[i].id) # "ok"
              /\ \A j \in 1 .. (i - 1) : MarkOutcome(st, rows[j].id) = "ok"
      ELSE 0

\* Reached with the row whose mark raised left in the iterator.
ReachedBeforeFailure(k, n) == IF k = 0 THEN n ELSE k - 1

\* How many rows a loop that would take n rows has pulled from the iterator
\* when it ends: n, or k when the mark of its k-th row raised (the row was
\* pulled before its mark was tried).
Reached(k, n) == IF k = 0 THEN n ELSE k

\* The shared step of the read operations: pull the first n rows from the
\* iterator one by one and mark each consumed.  When a mark raises, the rows
\* before it are marked, the iterator is left after the row whose mark
\* raised, and the call ends there.
Consume(s, n) ==
    LET st      == streams[s]
        rows    == SubSeq(st.row_iterator, 1, n)
        k       == FailsAt(st, rows)
        marked  == IF k = 0 THEN rows ELSE SubSeq(rows, 1, k - 1)
        reached == Reached(k, n)
        kept    == IF marked = <<>> THEN st.pending ELSE {}
    IN  /\ table' = IF marked = <<>> THEN table
                                     ELSE MarkAll(Commit(table, st), st, marked)
        /\ streams' = [streams EXCEPT
                          ![s].row_iterator = Rest(st.row_iterator, reached),
                          ![s].pending =
                              IF k = 0 THEN kept
                              ELSE IF MarkOutcome(st, rows[k].id) = "commit"
                                THEN kept \cup {rows[k].id}
                                ELSE kept]
        /\ faults' = IF k # 0 /\ Usable(st) THEN NoFault ELSE faults

(* ------------------------------ actions ------------------------------- *)

\* DatabaseStream.__init__ (with SqliteDatabaseStream._db_connect).
\* t: what datetime.datetime.now() returns.
__init__(s, mode, t) ==
    /\ ~streams[s].constructed
    /\ IF s = 1 THEN TRUE ELSE streams[s - 1].constructed
    /\ t >= now
    /\ now' = t
    /\ LET st == [constructed |-> TRUE, mode |-> mode, session_ts |-> t,
                  hostname |-> gethostname(s), pid |-> getpid(s), closed |-> FALSE,
                  row_iterator |-> <<>>, db_closes |-> 0,
                  cursor |-> "open", conn |-> "open", pending |-> {}]
       IN  streams' = [streams EXCEPT ![s] =
                          IF readable(st)
                            THEN [st EXCEPT !.row_iterator = _fetch_unconsumed(table)]
                            ELSE st]
    /\ unconsumed_at_init' = [unconsumed_at_init EXCEPT ![s] =
                                 {r.id : r \in {q \in table : q.session_ts = NULL}}]
    /\ ret' = Call(s, "__init__", "ok", "")
    /\ UNCHANGED <<table, scoped, delivered, written, faults>>

write(s, content) ==
    /\ streams[s].constructed
    /\ LET st == streams[s]
       IN  IF st.closed THEN Raise(s, "write", "ValueError")
           ELSE IF ~writable(st) THEN Raise(s, "write", "UnsupportedOperation")
           ELSE IF ~Usable(st) THEN Raise(s, "write", "sqlite3.Error")
           ELSE /\ Cardinality(table) < MaxRows
                /\ table' = _write_record(table, st, content)
                /\ written' = [written EXCEPT ![s] = Append(@, content)]
                /\ ret' = Call(s, "write", "ok", "")
                /\ UNCHANGED <<streams, now, scoped, delivered, unconsumed_at_init, faults>>

flush(s) ==
    /\ streams[s].constructed
    /\ LET st == streams[s]
       IN  IF st.closed THEN Raise(s, "flush", "ValueError")
           ELSE IF st.conn # "open" THEN Raise(s, "flush", "sqlite3.Error")
           ELSE /\ table' = Commit(table, st)
                /\ streams' = [streams EXCEPT ![s].pending = {}]
                /\ ret' = Call(s, "flush", "ok", "")
                /\ UNCHANGED <<now, scoped, delivered, unconsumed_at_init, written, faults>>

read(s, size) ==
    /\ streams[s].constructed
    /\ LET st == streams[s]
       IN  IF st.closed THEN Raise(s, "read", "ValueError")
           ELSE IF ~readable(st) THEN Raise(s, "read", "UnsupportedOperation")
           ELSE LET n    == read_loop(st.row_iterator, size, 0, 0)
                    rows == SubSeq(st.row_iterator, 1, n)
                IN  /\ Consume(s, n)
                    /\ IF FailsAt(st, rows) # 0
                         THEN /\ ret' = Call(s, "read", "sqlite3.Error", "")
                              /\ delivered' = delivered
                         ELSE /\ ret' = Call(s, "read", "ok", join(Texts(rows)))
                              /\ delivered' = [delivered EXCEPT ![s] = @ \o Ids(rows)]
                    /\ UNCHANGED <<now, scoped, unconsumed_at_init, written>>

readline(s, limit) ==
    /\ streams[s].constructed
    /\ LET st == streams[s]
       IN  IF st.closed THEN Raise(s, "readline", "ValueError")
           ELSE IF ~readable(st) THEN Raise(s, "readline", "UnsupportedOperation")
           ELSE IF st.row_iterator = <<>>
             THEN /\ ret' = Call(s, "readline", "ok", "")
                  /\ UNCHANGED <<table, streams, now, scoped, delivered, unconsumed_at_init, written, faults>>
             ELSE LET row  == Head(st.row_iterator)
                      text == IF limit >= 0 THEN Truncate(row.content, limit)
                                            ELSE row.content
                  IN  /\ Consume(s, 1)
                      /\ IF FailsAt(st, <<row>>) # 0
                           THEN /\ ret' = Call(s, "readline", "sqlite3.Error", "")
                                /\ delivered' = delivered
                           ELSE /\ ret' = Call(s, "readline", "ok", text)
                                /\ delivered' = [delivered EXCEPT ![s] = Append(@, row.id)]
                      /\ UNCHANGED <<now, scoped, unconsumed_at_init, written>>

readlines(s, hint) ==
    /\ streams[s].constructed
    /\ LET st == streams[s]
       IN  IF st.closed THEN Raise(s, "readlines", "ValueError")
           ELSE IF ~readable(st) THEN Raise(s, "readlines", "UnsupportedOperation")
           ELSE LET n    == readlines_loop(st.row_iterator, hint, 0, 0)
                    rows == SubSeq(st.row_iterator, 1, n)
                IN  /\ Consume(s, n)
                    /\ IF FailsAt(st, rows) # 0
                         THEN /\ ret' = Call(s, "readlines", "sqlite3.Error", "")
                              /\ delivered' = delivered
                         ELSE /\ ret' = Call(s, "readlines", "ok", Texts(rows))
                              /\ delivered' = [delivered EXCEPT ![s] = @ \o Ids(rows)]
                    /\ UNCHANGED <<now, scoped, unconsumed_at_init, written>>

__iter__(s) ==
    /\ streams[s].constructed
    /\ IF ~readable(streams[s]) THEN Raise(s, "__iter__", "UnsupportedOperation")
       ELSE /\ ret' = Call(s, "__iter__", "ok", "")
            /\ UNCHANGED <<table, streams, now, scoped, delivered, unconsumed_at_init, written, faults>>

__next__(s) ==
    /\ streams[s].constructed
    /\ LET st == streams[s]
       IN  IF st.closed THEN Raise(s, "__next__", "ValueError")
           ELSE IF ~readable(st) THEN Raise(s, "__next__", "UnsupportedOperation")
           ELSE IF st.row_iterator = <<>> THEN Raise(s, "__next__", "StopIteration")
           ELSE LET row == Head(st.row_iterator)
                IN  /\ Consume(s, 1)
                    /\ IF FailsAt(st, <<row>>) # 0
                         THEN /\ ret' = Call(s, "__next__", "sqlite3.Error", "")
                              /\ delivered' = delivered
                         ELSE /\ ret' = Call(s, "__next__", "ok", row.content)
                              /\ delivered' = [delivered EXCEPT ![s] = Append(@, row.id)]
                    /\ UNCHANGED <<now, scoped, unconsumed_at_init, written>>

\* close() without its early return: the release hook runs on every call.
ClosedAgain(st) == _db_close([st EXCEPT !.closed = TRUE, !.db_closes = @ + 1])

\* The assignments of close(): _closed = True, then _db_close().
Closed(st) ==
    IF st.closed THEN st
    ELSE _db_close([st EXCEPT !.closed = TRUE, !.db_closes = @ + 1])

\* close() marking the rows left in the cursor as consumed.
CloseDrains(s) ==
    /\ streams[s].constructed
    /\ streams' = [streams EXCEPT ![s] = Closed(@)]
    /\ table' = MarkAll(table, streams[s], streams[s].row_iterator)
    /\ ret' = Call(s, "close", "ok", "")
    /\ UNCHANGED <<now, scoped, delivered, unconsumed_at_init, written, faults>>

close(s) ==
    /\ streams[s].constructed
    /\ streams' = [streams EXCEPT ![s] = Closed(@)]
    /\ ret' = Call(s, "close", "ok", "")
    /\ UNCHANGED <<table, now, scoped, delivered, unconsumed_at_init, written, faults>>

__enter__(s) ==
    /\ streams[s].constructed
    /\ ~scoped[s]
    /\ IF streams[s].closed THEN Raise(s, "__enter__", "ValueError")
       ELSE /\ scoped' = [scoped EXCEPT ![s] = TRUE]
            /\ ret' = Call(s, "__enter__", "ok", "")
            /\ UNCHANGED <<table, streams, now, delivered, unconsumed_at_init, written, faults>>

\* __exit__ returning true when the block raised.
ExitSwallows(exc) == exc

\* What __exit__ returns: whether the block's exception is suppressed.
ExitReturn(exc) == FALSE

\* exc: whether the with-block ended with an exception.  The with statement
\* re-raises the block's exception unless __exit__ returns true.
__exit__(s, exc) ==
    /\ streams[s].constructed
    /\ scoped[s]
    /\ streams' = [streams EXCEPT ![s] = Closed(@)]
    /\ scoped' = [scoped EXCEPT ![s] = FALSE]
    /\ ret' = Call(s, "__exit__",
                   IF exc /\ ~ExitReturn(exc) THEN "BlockException" ELSE "ok",
                   ExitReturn(exc))
    /\ UNCHANGED <<table, now, delivered, unconsumed_at_init, written, faults>>

\* Another connection inserts an unconsumed row: INSERT INTO t (content) VALUES (?).
\* It waits while a stream's connection holds an open transaction on the table.
InsertUnconsumed(content) ==
    /\ Cardinality(table) < MaxRows
    /\ \A s \in Streams : streams[s].pending = {}
    /\ table' = table \cup { [id |-> NextId(table), content |-> content,
                              session_ts |-> NULL, hostname |-> NULLTEXT,
                              pid |-> NULL] }
    /\ ret' = Call(0, "INSERT", "ok", "")
    /\ UNCHANGED <<streams, now, scoped, delivered, unconsumed_at_init, written, faults>>

\* The store is about to fail one statement of the _mark_consumed that an
\* open reader will run for row id: the UPDATE (kind "execute") or the COMMIT
\* after it (kind "commit").  The failure is transient: it hits one call.
StoreFault(kind, id) ==
    /\ faults = NoFault
    /\ \E s \in Streams :
          /\ ~streams[s].closed /\ Usable(streams[s])
          /\ \E i \in DOMAIN streams[s].row_iterator : streams[s].row_iterator[i].id = id
    /\ faults' = [kind |-> kind, id |-> id]
    /\ ret' = Call(0, "StoreFault", "ok", "")
    /\ UNCHANGED <<table, streams, now, scoped, delivered, unconsumed_at_init, written>>

\* The cursor or the connection of an open stream breaks: every later
\* statement on it raises, and so does releasing it.
Break(s, part) ==
    /\ streams[s].constructed /\ ~streams[s].closed
    /\ IF part = "cursor"
         THEN /\ streams[s].cursor = "open"
              /\ streams' = [streams EXCEPT ![s].cursor = "broken"]
         ELSE /\ streams[s].conn = "open"
              /\ streams' = [streams EXCEPT ![s].conn = "broken"]
    /\ ret' = Call(0, "Break", "ok", "")
    /\ UNCHANGED <<table, now, scoped, delivered, unconsumed_at_init, written, faults>>

(* --------------------------- specifications --------------------------- *)

Init ==
    /\ table = {}
    /\ streams = [s \in Streams |-> NoStream]
    /\ now = 1
    /\ scoped = [s \in Streams |-> FALSE]
    /\ ret = [s |-> 0, op |-> "none", was_closed |-> FALSE, outcome |-> "ok", value |-> ""]
    /\ delivered = [s \in Streams |-> <<>>]
    /\ unconsumed_at_init = [s \in Streams |-> {}]
    /\ written = [s \in Streams |-> <<>>]
    /\ faults = NoFault

Next ==
    \/ \E s \in Streams, mode \in Modes, t \in 1 .. MaxClock : __init__(s, mode, t)
    \/ \E s \in Streams, content \in Contents : write(s, content)
    \/ \E s \in Streams : flush(s)
    \/ \E s \in Streams, size \in Args : read(s, size)
    \/ \E s \in Streams, limit \in Args : readline(s, limit)
    \/ \E s \in Streams, hint \in Args : readlines(s, hint)
    \/ \E s \in Streams : __iter__(s)
    \/ \E s \in Streams : __next__(s)
    \/ \E s \in Streams : close(s)
    \/ \E s \in Streams : __enter__(s)
    \/ \E s \in Streams, exc \in BOOLEAN : __exit__(s, exc)
    \/ \E content \in Contents : InsertUnconsumed(content)

Spec == Init /\ [][Next]_vars

(* One reader stream alone on a table that earlier sessions have left in any *)
(* state: rows 1..n, each consumed by an earlier session or still unconsumed. *)

\* The stamp an earlier reader session left on the rows it consumed.
EarlierSession == [session_ts |-> 1, hostname |-> "hostB", pid |-> 3]

\* The table with contents c[1..n], row i unconsumed iff u[i].
TableOf(c, u) ==
    { [id |-> i, content |-> c[i],
       session_ts |-> IF u[i] THEN NULL ELSE EarlierSession.session_ts,
       hostname |-> IF u[i] THEN NULLTEXT ELSE EarlierSession.hostname,
       pid |-> IF u[i] THEN NULL ELSE EarlierSession.pid] : i \in DOMAIN c }

InitTables ==
    UNION { { TableOf(c, u) : c \in [1 .. n -> Contents], u \in [1 .. n -> BOOLEAN] } :
              n \in 0 .. MaxInitRows }

\* The stream object of the lone reader.
Reader == 1

InitReader ==
    /\ table \in InitTables
    /\ streams = [s \in Streams |-> NoStream]
    /\ now = 1
    /\ scoped = [s \in Streams |-> FALSE]
    /\ ret = [s |-> 0, op |-> "none", was_closed |-> FALSE, outcome |-> "ok", value |-> ""]
    /\ delivered = [s \in Streams |-> <<>>]
    /\ unconsumed_at_init = [s \in Streams |-> {}]
    /\ written = [s \in Streams |-> <<>>]
    /\ faults = NoFault

NextReader ==
    \/ \E t \in 1 .. MaxClock : __init__(Reader, "r", t)
    \/ \E content \in Contents : write(Reader, content)
    \/ flush(Reader)
    \/ \E size \in Args : read(Reader, size)
    \/ \E limit \in Args : readline(Reader, limit)
    \/ \E hint \in Args : readlines(Reader, hint)
    \/ __iter__(Reader)
    \/ __next__(Reader)
    \/ close(Reader)
    \/ __enter__(Reader)
    \/ \E exc \in BOOLEAN : __exit__(Reader, exc)
    \/ \E content \in Contents : InsertUnconsumed(content)

SpecReader == InitReader /\ [][NextReader]_vars

(* Any streams, at most one open reader at a time: a reader is constructed   *)
(* only when every reader constructed before it has been closed.            *)

ReadersClosed == \A q \in Streams : (streams[q].constructed /\ streams[q].mode = "r") => streams[q].closed

NextSequential ==
    \/ \E s \in Streams, mode \in Modes, t \in 1 .. MaxClock :
          /\ mode = "r" => ReadersClosed
          /\ __init__(s, mode, t)
    \/ \E s \in Streams, content \in Contents : write(s, content)
    \/ \E s \in Streams : flush(s)
    \/ \E s \in Streams, size \in Args : read(s, size)
    \/ \E s \in Streams, limit \in Args : readline(s, limit)
    \/ \E s \in Streams, hint \in Args : readlines(s, hint)
    \/ \E s \in Streams : __iter__(s)
    \/ \E s \in Streams : __next__(s)
    \/ \E s \in Streams : close(s)
    \/ \E s \in Streams : __enter__(s)
    \/ \E s \in Streams, exc \in BOOLEAN : __exit__(s, exc)
    \/ \E content \in Contents : InsertUnconsumed(content)

SpecSequential == Init /\ [][NextSequential]_vars

(* One reader on a table of unconsumed rows, with a store that can fail a   *)
(* statement of _mark_consumed.  The caller reads, flushes and closes.      *)

\* The table holds unconsumed rows only, as after test_read's inserts.
InitFail ==
    /\ InitReader
    /\ \A r \in table : r.session_ts = NULL

NextFail ==
    \/ __init__(Reader, "r", now)
    \/ flush(Reader)
    \/ \E size \in Args : read(Reader, size)
    \/ \E limit \in Args : readline(Reader, limit)
    \/ \E hint \in Args : readlines(Reader, hint)
    \/ __next__(Reader)
    \/ close(Reader)
    \/ \E kind \in {"execute", "commit"}, id \in 1 .. MaxInitRows : StoreFault(kind, id)

SpecFail == InitFail /\ [][NextFail]_vars

(* One stream of any mode whose cursor and connection can break. *)

NextBroken ==
    \/ \E mode \in Modes, t \in 1 .. MaxClock : __init__(Reader, mode, t)
    \/ \E content \in Contents : write(Reader, content)
    \/ flush(Reader)
    \/ \E size \in Args : read(Reader, size)
    \/ \E limit \in Args : readline(Reader, limit)
    \/ \E hint \in Args : readlines(Reader, hint)
    \/ __iter__(Reader)
    \/ __next__(Reader)
    \/ close(Reader)
    \/ __enter__(Reader)
    \/ \E exc \in BOOLEAN : __exit__(Reader, exc)
    \/ \E content \in Contents : InsertUnconsumed(content)
    \/ \E part \in {"cursor", "conn"} : Break(Reader, part)

SpecBroken == Init /\ [][NextBroken]_vars

(* ------------------------ vocabulary of the claims --------------------- *)

Range(seq) == { seq[i] : i \in DOMAIN seq }

NoRepeat(seq) == \A i, j \in DOMAIN seq : i # j => seq[i] # seq[j]

Min(a, b) == IF a < b THEN a ELSE b

\* The row of tbl with the given id.
RowOf(tbl, id) == CHOOSE r \in tbl : r.id = id

\* The session/hostname/pid triple of a stream object or of a row.
Stamp(x) == <<x.session_ts, x.hostname, x.pid>>

IsReader(s) == streams[s].constructed /\ streams[s].mode = "r"

IsWriter(s) == streams[s].constructed /\ streams[s].mode = "w"

ReadOps == {"read", "readline", "readlines", "__next__"}

\* In a step: the ids stream s returns, and the stored contents of those rows.
Taken(s) == SubSeq(delivered'[s], Len(delivered[s]) + 1, Len(delivered'[s]))

TakenTexts(s) == [i \in DOMAIN Taken(s) |-> RowOf(table, Taken(s)[i]).content]

(* --------------------------------- C1 ---------------------------------- *)

\* A reader returns no row twice, returns only rows that were unconsumed when
\* it was constructed, every row it has returned carries its stamp, and once
\* its cursor is exhausted it has returned every such row.
ConsumedOnce ==
    \A s \in Streams : IsReader(s) =>
        /\ NoRepeat(delivered[s])
        /\ Range(delivered[s]) \subseteq unconsumed_at_init[s]
        /\ \A id \in Range(delivered[s]) :
               Stamp(RowOf(table, id)) = Stamp(streams[s])
        /\ streams[s].row_iterator = <<>> =>
               Range(delivered[s]) = unconsumed_at_init[s]

\* A read call returns the stored content of the rows it takes, whole.
ReturnsWhole ==
    (ret'.op \in ReadOps /\ ret'.outcome = "ok") =>
        LET texts == TakenTexts(ret'.s)
        IN  CASE ret'.op = "read" -> ret'.value = join(texts)
              [] ret'.op = "readlines" -> ret'.value = texts
              [] ret'.op = "__next__" -> Len(texts) = 1 /\ ret'.value = texts[1]
              [] ret'.op = "readline" ->
                    IF texts = <<>> THEN ret'.value = ""
                    ELSE Len(texts) = 1 /\ ret'.value = texts[1]

\* The same, but readline(limit) with limit >= 0 returns the first limit
\* characters of the one row it takes.
ReturnsWholeOrCut ==
    (ret'.op \in ReadOps /\ ret'.outcome = "ok") =>
        LET texts == TakenTexts(ret'.s)
        IN  CASE ret'.op = "read" -> ret'.value = join(texts)
              [] ret'.op = "readlines" -> ret'.value = texts
              [] ret'.op = "__next__" -> Len(texts) = 1 /\ ret'.value = texts[1]
              [] ret'.op = "readline" ->
                    IF texts = <<>> THEN ret'.value = ""
                    ELSE /\ Len(texts) = 1
                         /\ \E limit \in Args :
                              /\ readline(ret'.s, limit)
                              /\ ret'.value =
                                    IF limit < 0 THEN texts[1]
                                    ELSE SubSeq(texts[1], 1, Min(limit, Len(texts[1])))

\* C1 as stated: a lone reader, drained by any mix of read, readline,
\* readlines and iteration, returns the content of every row that was
\* unconsumed at its construction exactly once, returns no row twice, and
\* leaves each such row stamped with its own session_ts/hostname/pid.
C1_EveryContentReturnedOnce == []ConsumedOnce /\ [][ReturnsWhole]_vars

\* C1 as amended: the same, except that a row taken by readline(limit) with
\* limit >= 0 is returned cut to its first limit characters.
C1_EveryRowConsumedOnce == []ConsumedOnce /\ [][ReturnsWholeOrCut]_vars

\* The reader has drained a snapshot of two rows or more, the last by a
\* readline that returned less than the row holds.
C1_DrainedWithCutLine ==
    /\ IsReader(Reader)
    /\ streams[Reader].row_iterator = <<>>
    /\ Len(delivered[Reader]) >= 2
    /\ Range(delivered[Reader]) = unconsumed_at_init[Reader]
    /\ ret.s = Reader /\ ret.op = "readline" /\ ret.outcome = "ok"
    /\ ret.value # RowOf(table, delivered[Reader][Len(delivered[Reader])]).content

(* --------------------------------- C2 ---------------------------------- *)

\* C2: the ids of the rows a reader returns, in the order it returns them
\* (across calls and within one call), are strictly increasing.
C2_AscendingIds ==
    \A s \in Streams :
        \A i, j \in DOMAIN delivered[s] : i < j => delivered[s][i] < delivered[s][j]

\* The reader has returned three rows, the last ones in one readlines call.
C2_ThreeRowsReturned ==
    /\ Len(delivered[Reader]) >= 3
    /\ ret.s = Reader /\ ret.op = "readlines" /\ Len(ret.value) >= 2

(* --------------------------------- C3 ---------------------------------- *)

\* The rows that carry stream s's stamp, by ascending id.
RowsStampedBy(s) == OrderById({ r \in table : Stamp(r) = Stamp(streams[s]) })

\* The rows carrying a writer's stamp are, by ascending id, the arguments of
\* its successful writes in call order, and its stamp has no NULL in it.
WritesKept ==
    \A s \in Streams : IsWriter(s) =>
        /\ streams[s].session_ts # NULL
        /\ streams[s].hostname # NULLTEXT
        /\ streams[s].pid # NULL
        /\ Texts(RowsStampedBy(s)) = written[s]

\* A successful write adds exactly one row: it has the largest id, the whole
\* argument as content and the writer's stamp; no other row changes.
WriteAddsOne ==
    (ret'.op = "write" /\ ret'.outcome = "ok") =>
        LET s == ret'.s
        IN  /\ Len(written'[s]) = Len(written[s]) + 1
            /\ Cardinality(table') = Cardinality(table) + 1
            /\ \E r \in table' :
                  /\ r \notin table
                  /\ table' = table \cup {r}
                  /\ \A q \in table : q.id < r.id
                  /\ r.content = written'[s][Len(written'[s])]
                  /\ Stamp(r) = Stamp(streams[s])

\* The stamp of a stream object is the one its constructor fixed.
StampFixed ==
    \A s \in Streams : streams[s].constructed => Stamp(streams'[s]) = Stamp(streams[s])

\* C3: on an open writer every successful write(s) appends exactly one record
\* whose content is the whole argument; after n writes there are n more
\* records, in call order by ascending id, all with the writer's one
\* non-null session_ts/hostname/pid triple fixed at construction.
C3_WriteAppendsOneRecord == []WritesKept /\ [][WriteAddsOne /\ StampFixed]_vars

\* A writer has written two different strings.
C3_TwoWrites ==
    \E s \in Streams :
        /\ IsWriter(s)
        /\ Len(written[s]) = 2 /\ written[s][1] # written[s][2]
        /\ ret.s = s /\ ret.op = "write" /\ ret.outcome = "ok"

(* --------------------------------- C4 ---------------------------------- *)

\* C4: no step changes the id or content of an existing record or removes
\* it, and a record whose session_ts is not NULL is never changed again:
\* _mark_consumed never overwrites the stamp of a consumed record.
C4_RecordsStampedOnce ==
    [][ \A r \in table :
          \E q \in table' :
              /\ q.id = r.id
              /\ q.content = r.content
              /\ r.session_ts # NULL => q = r ]_vars

(* --------------------------------- C5 ---------------------------------- *)

\* Every call other than close on a closed reader or writer raises ValueError.
ClosedRaisesValueError ==
    (/\ ret.s \in Streams
     /\ ret.was_closed
     /\ streams[ret.s].mode \in {"r", "w"}
     /\ ret.op \notin {"close", "__exit__"}) =>
        ret.outcome = "ValueError"

\* Such a call changes neither the table nor any stream object.
ClosedCallChangesNothing ==
    (/\ ret'.s \in Streams
     /\ ret'.was_closed
     /\ streams[ret'.s].mode \in {"r", "w"}
     /\ ret'.op \notin {"close", "__exit__"}) =>
        (table' = table /\ streams' = streams)

\* C5: after close(), write, flush, read, readline, readlines, iter(),
\* next() and with-entry all fail with ValueError ("closed stream"), never
\* with UnsupportedOperation, in either mode, and change nothing.
C5_ClosedStreamError == []ClosedRaisesValueError /\ [][ClosedCallChangesNothing]_vars

(* --------------------------------- C6 ---------------------------------- *)

\* op is an operation a stream of this mode does not support.
WrongMode(mode, op) ==
    \/ mode = "r" /\ op = "write"
    \/ mode = "w" /\ op \in ReadOps \cup {"__iter__"}

\* A wrong-mode call on an open stream raises UnsupportedOperation and leaves
\* the stream open.
WrongModeRaises ==
    (/\ ret.s \in Streams
     /\ ~ret.was_closed
     /\ WrongMode(streams[ret.s].mode, ret.op)) =>
        (ret.outcome = "UnsupportedOperation" /\ ~streams[ret.s].closed)

\* A call that raises UnsupportedOperation inserts nothing, marks nothing and
\* moves no cursor.
UnsupportedChangesNothing ==
    ret'.outcome = "UnsupportedOperation" =>
        (table' = table /\ streams' = streams /\ delivered' = delivered)

\* C6: on an open stream, write on a reader and read, readline, readlines,
\* iter() and next() on a writer fail with UnsupportedOperation, insert and
\* mark nothing, do not advance the cursor, and leave the stream open.
C6_WrongModeUnsupported == []WrongModeRaises /\ [][UnsupportedChangesNothing]_vars

\* A reader with rows left refused a write, and a writer with rows in the
\* table refused a read.
C6_ReaderRefusedWrite ==
    /\ ret.s \in Streams /\ ret.op = "write" /\ ret.outcome = "UnsupportedOperation"
    /\ IsReader(ret.s) /\ ~streams[ret.s].closed
    /\ streams[ret.s].row_iterator # <<>>
    /\ \E w \in Streams : IsWriter(w) /\ ~streams[w].closed /\ written[w] # <<>>

(* --------------------------------- C7 ---------------------------------- *)

\* The release hook has run once on a closed stream and never on an open one.
ReleasedOnce ==
    \A s \in Streams : streams[s].constructed =>
        streams[s].db_closes = (IF streams[s].closed THEN 1 ELSE 0)

\* close() leaves the stream closed and the table alone; on a closed stream
\* it changes nothing; no step reopens a closed stream.
CloseIsIdempotent ==
    /\ \A s \in Streams : streams[s].closed => streams'[s].closed
    /\ ret'.op = "close" =>
          /\ ret'.outcome = "ok"
          /\ streams'[ret'.s].closed
          /\ table' = table
          /\ ret'.was_closed => streams' = streams
          /\ ~ret'.was_closed =>
                streams'[ret'.s].db_closes = streams[ret'.s].db_closes + 1

\* C7: the first close() closes the stream and runs the release hook once;
\* every later close() is a no-op that does not run it again; a closed
\* stream is never open again.
C7_CloseIdempotent == []ReleasedOnce /\ [][CloseIsIdempotent]_vars

\* close() has returned on a stream that was already closed.
C7_ClosedTwice ==
    /\ ret.s \in Streams /\ ret.op = "close" /\ ret.was_closed
    /\ streams[ret.s].closed /\ streams[ret.s].db_closes = 1

(* --------------------------------- C8 ---------------------------------- *)

\* C8: with-entry on a closed stream raises ValueError; with-exit leaves the
\* stream closed, whether or not the block raised or had closed the stream
\* itself, and returns false, so the block's exception propagates.
C8_ScopedUse ==
    /\ (ret.op = "__enter__" /\ ret.was_closed) =>
            (ret.outcome = "ValueError" /\ ~scoped[ret.s])
    /\ ret.op = "__exit__" =>
            /\ streams[ret.s].closed
            /\ ret.value = FALSE
            /\ ret.outcome \in {"ok", "BlockException"}

\* A with-block that closed its stream and then raised has been left: the
\* exception propagated.
C8_ExitAfterCloseAndRaise ==
    /\ ret.op = "__exit__" /\ ret.was_closed /\ ret.outcome = "BlockException"
    /\ streams[ret.s].closed

(* ------------------------------ C9 and C10 ----------------------------- *)

\* The total content length of the first k rows.
RECURSIVE LengthOfFirst(_, _)
LengthOfFirst(rows, k) ==
    IF k = 0 THEN 0 ELSE LengthOfFirst(rows, k - 1) + Len(rows[k].content)

\* How many rows the shortest prefix of at least one row whose total length
\* is >= n holds; all rows when no prefix is that long; none when there are none.
PrefixReaching(rows, n) ==
    IF rows = <<>> THEN 0
    ELSE IF \E k \in 1 .. Len(rows) : LengthOfFirst(rows, k) >= n
      THEN CHOOSE k \in 1 .. Len(rows) :
              /\ LengthOfFirst(rows, k) >= n
              /\ \A j \in 1 .. (k - 1) : LengthOfFirst(rows, j) < n
      ELSE Len(rows)

\* In a step, stream s takes exactly the first k rows of its cursor: the
\* cursor moves past them, they are the rows returned, they carry the
\* stream's stamp afterwards, and no other row of the table changes.
TakesFirst(s, k) ==
    LET rows  == streams[s].row_iterator
        first == SubSeq(rows, 1, k)
    IN  /\ streams'[s].row_iterator = SubSeq(rows, k + 1, Len(rows))
        /\ Taken(s) = Ids(first)
        /\ Cardinality(table') = Cardinality(table)
        /\ \A r \in table :
              \E q \in table' :
                  /\ q.id = r.id
                  /\ q.content = r.content
                  /\ IF r.id \in Range(Ids(first))
                       THEN Stamp(q) = Stamp(streams[s])
                       ELSE q = r

\* read(size), size >= 0, on an open reader takes the shortest prefix that
\* reaches size and returns its contents joined; on an exhausted cursor read
\* returns "" and marks nothing.
ReadTakesPrefix ==
    \A s \in Streams, size \in Args :
        (/\ ret'.op = "read" /\ ret'.s = s
         /\ IsReader(s) /\ ~streams[s].closed
         /\ read(s, size)) =>
            LET rows == streams[s].row_iterator
                k    == PrefixReaching(rows, size)
            IN  /\ ret'.outcome = "ok"
                /\ size >= 0 =>
                      /\ TakesFirst(s, k)
                      /\ ret'.value = join(Texts(SubSeq(rows, 1, k)))
                /\ (size = 0 /\ rows # <<>>) =>
                      (Taken(s) = <<rows[1].id>> /\ ret'.value = rows[1].content)
                /\ rows = <<>> => (ret'.value = "" /\ table' = table)

ReadlinesTakesPrefix ==
    \A s \in Streams, hint \in Args :
        (/\ ret'.op = "readlines" /\ ret'.s = s
         /\ IsReader(s) /\ ~streams[s].closed
         /\ readlines(s, hint)) =>
            LET rows == streams[s].row_iterator
                k    == IF hint < 0 THEN Len(rows) ELSE PrefixReaching(rows, hint)
            IN  /\ ret'.outcome = "ok"
                /\ TakesFirst(s, k)
                /\ ret'.value = Texts(SubSeq(rows, 1, k))
                /\ rows # <<>> => Len(ret'.value) >= 1

\* C10: readlines(hint) returns the full contents, in cursor order, of the
\* records it consumes: all remaining ones for hint < 0, and for hint >= 0
\* up to and including the first that brings the total length to >= hint
\* (at least one when the cursor is not empty); it marks exactly those.
C10_ReadlinesConsumesToHint == [][ReadlinesTakesPrefix]_vars

\* A readlines call has returned two records and stopped with records left.
C10_ReadlinesStoppedEarly ==
    /\ ret.s = Reader /\ ret.op = "readlines" /\ ret.outcome = "ok"
    /\ Len(ret.value) = 2
    /\ Len(delivered[Reader]) = 2
    /\ streams[Reader].row_iterator # <<>>

(* --------------------------------- C11 --------------------------------- *)

\* A row a reader has returned, whole or cut, is no longer in its cursor, and
\* no row is returned twice.
ReturnedRowsGone ==
    \A s \in Streams : IsReader(s) =>
        /\ NoRepeat(delivered[s])
        /\ Range(delivered[s]) \cap Range(Ids(streams[s].row_iterator)) = {}

\* readline(limit) on an open reader takes exactly the first row of a
\* non-empty cursor, marks it, leaves its stored content alone and returns
\* its first limit characters (all of it for limit < 0); on an exhausted
\* cursor it returns "" and takes nothing.
ReadlineTakesOne ==
    \A s \in Streams, limit \in Args :
        (/\ ret'.op = "readline" /\ ret'.s = s
         /\ IsReader(s) /\ ~streams[s].closed
         /\ readline(s, limit)) =>
            LET rows == streams[s].row_iterator
            IN  /\ ret'.outcome = "ok"
                /\ IF rows = <<>>
                     THEN /\ ret'.value = ""
                          /\ TakesFirst(s, 0)
                          /\ table' = table
                     ELSE /\ TakesFirst(s, 1)
                          /\ RowOf(table', rows[1].id).content = rows[1].content
                          /\ ret'.value =
                                IF limit < 0 THEN rows[1].content
                                ELSE SubSeq(rows[1].content, 1,
                                            Min(limit, Len(rows[1].content)))

\* C11: readline(limit) consumes exactly one record of a non-empty cursor
\* and none of an exhausted one (returning ""); for limit >= 0 it returns the
\* first limit characters, yet marks the whole record, leaves the stored
\* content unchanged, and no later read operation of the stream returns the
\* record (so the cut-off remainder is never returned).
C11_ReadlineConsumesOneRecord ==
    []ReturnedRowsGone /\ [][ReadlineTakesOne /\ ReturnsWholeOrCut]_vars

\* readline(1) has returned "b" of a record "bc", which is marked and whole
\* in the table, and the cursor has records left.
C11_LineCutRecordWhole ==
    /\ ret.s = Reader /\ ret.op = "readline" /\ ret.outcome = "ok"
    /\ ret.value = "b"
    /\ delivered[Reader] # <<>>
    /\ LET r == RowOf(table, delivered[Reader][Len(delivered[Reader])])
       IN  r.content = "bc" /\ Stamp(r) = Stamp(streams[Reader])
    /\ streams[Reader].row_iterator # <<>>

(* --------------------------------- C12 --------------------------------- *)

\* What a reader's cursor holds and what the reader has returned were
\* unconsumed rows of the table when the reader was constructed.
SnapshotFixed ==
    \A s \in Streams : IsReader(s) =>
        Range(Ids(streams[s].row_iterator)) \cup Range(delivered[s])
            \subseteq unconsumed_at_init[s]

\* The result of a read operation at the end of the stream.
EndOfStream(call) ==
    CASE call.op = "read" -> call.outcome = "ok" /\ call.value = ""
      [] call.op = "readline" -> call.outcome = "ok" /\ call.value = ""
      [] call.op = "readlines" -> call.outcome = "ok" /\ call.value = <<>>
      [] call.op = "__next__" -> call.outcome = "StopIteration"

\* No step adds a row to a reader's cursor; a call on a reader changes no row
\* that was not unconsumed at its construction; a read operation on an open
\* reader whose cursor is exhausted returns end-of-stream and marks nothing.
SnapshotNeverRefreshed ==
    \A s \in Streams : IsReader(s) =>
        /\ \E k \in 0 .. Len(streams[s].row_iterator) :
              streams'[s].row_iterator =
                  SubSeq(streams[s].row_iterator, k + 1, Len(streams[s].row_iterator))
        /\ ret'.s = s =>
              \A r \in table : r.id \notin unconsumed_at_init[s] => r \in table'
        /\ (/\ ret'.s = s /\ ret'.op \in ReadOps
            /\ ~streams[s].closed
            /\ streams[s].row_iterator = <<>>) =>
              (EndOfStream(ret') /\ table' = table /\ delivered' = delivered)

\* C12: a reader's cursor is a snapshot taken once, at construction: a record
\* inserted as unconsumed afterwards is never returned and never marked by
\* that reader, whatever it calls, and once the snapshot is exhausted every
\* read operation returns end-of-stream ("" / empty list / StopIteration)
\* even while such newer unconsumed records exist.
C12_SnapshotAtConstruction == []SnapshotFixed /\ [][SnapshotNeverRefreshed]_vars

\* The reader has returned its whole snapshot and a read operation has just
\* returned end-of-stream, while the table holds an unconsumed record that
\* was inserted after the reader was constructed.
C12_EndOfStreamPastNewRecord ==
    /\ IsReader(Reader) /\ ~streams[Reader].closed
    /\ streams[Reader].row_iterator = <<>>
    /\ delivered[Reader] # <<>>
    /\ ret.s = Reader /\ ret.op \in ReadOps /\ EndOfStream(ret)
    /\ \E r \in table :
          /\ r.session_ts = NULL
          /\ r.id \notin unconsumed_at_init[Reader]
          /\ \A i \in unconsumed_at_init[Reader] : i < r.id

(* --------------------------------- C13 --------------------------------- *)

\* No record has been returned by two reader streams.
NoSharedDelivery ==
    \A s, q \in Streams :
        (s # q /\ IsReader(s) /\ IsReader(q)) =>
            Range(delivered[s]) \cap Range(delivered[q]) = {}

\* The snapshot a reader takes at construction holds no record that carries
\* a stamp and no record another reader has returned.
SnapshotSkipsConsumed ==
    \A s \in Streams :
        (ret'.op = "__init__" /\ ret'.s = s /\ streams'[s].mode = "r") =>
            LET snapshot == Range(Ids(streams'[s].row_iterator))
            IN  /\ \A r \in table : r.session_ts # NULL => r.id \notin snapshot
                /\ \A q \in Streams \ {s} : Range(delivered[q]) \cap snapshot = {}

\* C13: when each reader is constructed only after the reader before it has
\* been closed, no record is returned by more than one reader: a record some
\* reader has marked is in the snapshot of no reader constructed afterwards.
C13_SequentialReadersShareNothing ==
    []NoSharedDelivery /\ [][SnapshotSkipsConsumed]_vars

\* A reader returned a record and was closed; the next reader, constructed
\* on the table that held that marked record, has returned another one.
C13_SecondReaderReturnedTheRest ==
    /\ IsReader(1) /\ IsReader(2)
    /\ streams[1].closed
    /\ delivered[1] # <<>> /\ delivered[2] # <<>>
    /\ \A i \in Range(delivered[1]) : i \notin unconsumed_at_init[2]

(* --------------------------------- C14 --------------------------------- *)

\* The rows of tbl that a writer stream has inserted: they carry its stamp.
WrittenRows(tbl) ==
    { r \in tbl : \E w \in Streams : IsWriter(w) /\ Stamp(r) = Stamp(streams[w]) }

\* The ids an unconsumed-row query issued on tbl by any connection returns.
UnconsumedIds(tbl) == { r.id : r \in { q \in tbl : q.session_ts = NULL } }

\* When write returns, the record is in the table and an unconsumed-row
\* query returns it.
WrittenRecordUnconsumed ==
    (ret'.op = "write" /\ ret'.outcome = "ok") =>
        \E r \in table' \ table :
            /\ r.content = written'[ret'.s][Len(written'[ret'.s])]
            /\ r.id \in UnconsumedIds(table')

\* A reader constructed after a write has the written record in its snapshot.
WrittenRecordInSnapshot ==
    \A s \in Streams :
        (ret'.op = "__init__" /\ ret'.s = s /\ streams'[s].mode = "r") =>
            \A r \in WrittenRows(table) :
                r.id \in Range(Ids(streams'[s].row_iterator))

\* C14 as stated: when a writer's write returns, the inserted record is at
\* once visible to an independent connection's fresh unconsumed-row query,
\* and a reader constructed after the write has it in its snapshot.
C14_WrittenRecordReachesReaders ==
    [][WrittenRecordUnconsumed /\ WrittenRecordInSnapshot]_vars

\* When write returns, the record is in the table, with the writer's stamp,
\* and so is not among the unconsumed rows.
WrittenRecordCommitted ==
    (ret'.op = "write" /\ ret'.outcome = "ok") =>
        \E r \in table' \ table :
            /\ r.content = written'[ret'.s][Len(written'[ret'.s])]
            /\ r.session_ts # NULL
            /\ r.id \notin UnconsumedIds(table')

\* The snapshot of a reader is, at its construction, exactly the rows with
\* session_ts NULL; no written record is among them.
SnapshotIsUnconsumedRows ==
    \A s \in Streams :
        (ret'.op = "__init__" /\ ret'.s = s /\ streams'[s].mode = "r") =>
            /\ Range(Ids(streams'[s].row_iterator)) = UnconsumedIds(table)
            /\ \A r \in WrittenRows(table) :
                  r.id \notin Range(Ids(streams'[s].row_iterator))

\* No reader has a written record in its cursor or has returned one.
WrittenNeverRead ==
    \A s \in Streams : IsReader(s) =>
        \A r \in WrittenRows(table) :
            r.id \notin Range(Ids(streams[s].row_iterator)) \cup Range(delivered[s])

\* C14 as amended: when a writer's write returns, the inserted record is
\* committed to the table, where every connection sees it at once; it
\* carries the writer's non-null session_ts, so an unconsumed-row query does
\* not return it and no reader, constructed before or after the write, has
\* it in its snapshot or returns it.  A reader's snapshot is exactly the
\* rows whose session_ts is NULL at its construction.
C14_WrittenRecordCommittedNotUnconsumed ==
    []WrittenNeverRead /\ [][WrittenRecordCommitted /\ SnapshotIsUnconsumedRows]_vars

\* A reader has just been constructed on a table that holds a record a
\* writer wrote and an unconsumed record: its snapshot holds the latter only.
C14_ReaderAfterWrite ==
    /\ ret.op = "__init__" /\ ret.s \in Streams /\ IsReader(ret.s)
    /\ WrittenRows(table) # {}
    /\ streams[ret.s].row_iterator # <<>>
    /\ \E w \in Streams : IsWriter(w) /\ written[w] # <<>>

(* --------------------------------- C15 --------------------------------- *)

\* A resource after its release was tried: released, or still broken when
\* the release raised.
Released(resource) == IF resource = "open" THEN "closed" ELSE resource

\* close() returns normally and leaves the stream closed; the first close()
\* tries to release the cursor and then the connection, whichever of the two
\* is broken.  Leaving a with-block does the same.
CloseSwallows ==
    (ret'.op \in {"close", "__exit__"}) =>
        LET s == ret'.s
        IN  /\ ret'.outcome \in {"ok", "BlockException"}
            /\ ret'.op = "close" => ret'.outcome = "ok"
            /\ streams'[s].closed
            /\ ~ret'.was_closed =>
                  /\ streams'[s].cursor = Released(streams[s].cursor)
                  /\ streams'[s].conn = Released(streams[s].conn)
                  /\ streams'[s].db_closes = streams[s].db_closes + 1

\* No resource of a closed stream is left open.
ClosedHoldsNothingOpen ==
    \A s \in Streams : streams[s].closed =>
        (streams[s].cursor # "open" /\ streams[s].conn # "open")

\* C15: close() never surfaces an error: when releasing the cursor fails,
\* releasing the connection fails, or both do, close() returns normally, the
\* stream is closed afterwards, and the release of the connection is tried
\* also after the release of the cursor has failed.
C15_CloseSwallowsReleaseErrors == []ClosedHoldsNothingOpen /\ [][CloseSwallows]_vars

\* close() has returned on a stream whose cursor was broken: the cursor is
\* still broken, the connection has been released, the stream is closed.
C15_ClosedWithBrokenCursor ==
    /\ ret.s \in Streams /\ ret.op = "close" /\ ret.outcome = "ok" /\ ~ret.was_closed
    /\ streams[ret.s].closed
    /\ streams[ret.s].cursor = "broken"
    /\ streams[ret.s].conn = "closed"

(* --------------------------------- C16 --------------------------------- *)

\* Every row of a reader's snapshot is still in its cursor or has been
\* returned by it, whatever other readers have marked since.
SnapshotKeptWhole ==
    \A s \in Streams : IsReader(s) =>
        Range(Ids(streams[s].row_iterator)) \cup Range(delivered[s])
            = unconsumed_at_init[s]

\* A reader's snapshot holds every record that is unconsumed at its
\* construction.
SnapshotHoldsUnconsumed ==
    \A s \in Streams :
        (ret'.op = "__init__" /\ ret'.s = s /\ streams'[s].mode = "r") =>
            /\ Range(Ids(streams'[s].row_iterator)) = UnconsumedIds(table)
            /\ unconsumed_at_init'[s] = UnconsumedIds(table)

\* A read operation returns the contents of the rows it takes from its
\* cursor and leaves each with its own stamp, whether or not another reader
\* had stamped the row before; no other row changes, and no other step
\* changes a row.
LaterMarkOverwrites ==
    IF ret'.op \in ReadOps /\ ret'.outcome = "ok"
      THEN LET s == ret'.s
           IN  /\ Taken(s) = Ids(SubSeq(streams[s].row_iterator, 1, Len(Taken(s))))
               /\ \A id \in Range(Taken(s)) :
                     /\ Stamp(RowOf(table', id)) = Stamp(streams[s])
                     /\ RowOf(table', id).content = RowOf(table, id).content
               /\ \A r \in table : r.id \notin Range(Taken(s)) => r \in table'
               /\ ReturnsWholeOrCut
      ELSE \A r \in table : r \in table'

\* C16: two readers constructed before either has marked an unconsumed
\* record both have it in their snapshots, both return its content, and the
\* record carries the stamp of the reader that marked it last: the later
\* mark overwrites the earlier one.
C16_ConcurrentReadersDeliverTwice ==
    []SnapshotKeptWhole /\ [][SnapshotHoldsUnconsumed /\ LaterMarkOverwrites]_vars

\* Both readers have returned the same record; the one that returned it
\* last has just done so, and the record carries its stamp, not the other's.
C16_DeliveredTwice ==
    \E s, q \in Streams :
        /\ s # q /\ IsReader(s) /\ IsReader(q)
        /\ ret.s = s /\ ret.op \in ReadOps /\ ret.outcome = "ok"
        /\ delivered[s] # <<>>
        /\ LET id == delivered[s][Len(delivered[s])]
           IN  /\ id \in Range(delivered[q])
               /\ id \in unconsumed_at_init[s] \cap unconsumed_at_init[q]
               /\ Stamp(RowOf(table, id)) = Stamp(streams[s])
               /\ Stamp(streams[s]) # Stamp(streams[q])

(* --------------------------------- C17 --------------------------------- *)

\* The ids of the rows of its snapshot that reader s has pulled from its
\* cursor without returning them.
Lost(s) ==
    unconsumed_at_init[s]
        \ (Range(Ids(streams[s].row_iterator)) \cup Range(delivered[s]))

\* The rows a reader has pulled come before the rows left in its cursor, it
\* has returned no row twice, and the rows left in its cursor are unconsumed.
CursorPastPulledRows ==
    \A s \in Streams : IsReader(s) =>
        /\ NoRepeat(delivered[s])
        /\ \A i \in Lost(s) \cup Range(delivered[s]) :
              \A j \in Range(Ids(streams[s].row_iterator)) : i < j
        /\ \A j \in Range(Ids(streams[s].row_iterator)) :
              RowOf(table, j).session_ts = NULL

\* A read operation in which the mark of a record k raises: the error
\* reaches the caller, nothing is returned, the stream stays open, the
\* cursor is left just after k, the records of the call before k are
\* marked, and k is not marked in the table.
MarkFailureSurfaced ==
    \A s \in Streams :
        (ret'.s = s /\ ret'.op \in ReadOps /\ ret'.outcome = "sqlite3.Error") =>
            LET rows == streams[s].row_iterator
                j    == Len(rows) - Len(streams'[s].row_iterator)
            IN  /\ j >= 1
                /\ streams'[s].row_iterator = SubSeq(rows, j + 1, Len(rows))
                /\ ~streams'[s].closed
                /\ delivered' = delivered
                /\ ret'.value = ""
                /\ RowOf(table', rows[j].id) = RowOf(table, rows[j].id)
                /\ \A i \in 1 .. (j - 1) :
                      /\ Stamp(RowOf(table', rows[i].id)) = Stamp(streams[s])
                      /\ rows[i].id \in Lost(s)'

\* A read operation that returns takes its rows from the front of the
\* cursor, so it goes on with the record after k.
ReadsGoOn ==
    \A s \in Streams :
        (ret'.s = s /\ ret'.op \in ReadOps /\ ret'.outcome = "ok") =>
            LET n == Len(Taken(s))
            IN  /\ Taken(s) = Ids(SubSeq(streams[s].row_iterator, 1, n))
                /\ streams'[s].row_iterator =
                      SubSeq(streams[s].row_iterator, n + 1, Len(streams[s].row_iterator))

\* No later step changes a record the reader has pulled without returning it.
LostRowsFrozen ==
    \A s \in Streams : IsReader(s) =>
        \A r \in table : r.id \in Lost(s) => r \in table'

\* C17 as stated: when the mark of record k fails during a read operation,
\* the error is surfaced with no retry, the stream stays open with its
\* cursor past k, record k stays unconsumed in the table and is never
\* returned by a later operation (the next read goes on with the record
\* after k), and the records the call had marked before k are returned
\* neither by that call nor later.
C17_FailedMarkLeavesRecordUnconsumed ==
    []CursorPastPulledRows /\ [][MarkFailureSurfaced /\ ReadsGoOn /\ LostRowsFrozen]_vars

\* A record the reader has pulled without returning it changes only when
\* its UPDATE is in the reader's open transaction, because the COMMIT of
\* its mark raised, and a later commit of the reader succeeds (in flush, or
\* in the mark of a later record): then it gets the reader's stamp.
LostRowsFrozenOrCommitted ==
    \A s \in Streams : IsReader(s) =>
        \A r \in table : r.id \in Lost(s) =>
            \/ r \in table'
            \/ /\ r.id \in streams[s].pending
               /\ r.session_ts = NULL
               /\ ret'.s = s /\ ret'.op \in ReadOps \cup {"flush"}
               /\ RowOf(table', r.id) =
                     [r EXCEPT !.session_ts = streams[s].session_ts,
                               !.hostname = streams[s].hostname,
                               !.pid = streams[s].pid]

\* The updates in a reader's open transaction are of records it has pulled
\* without returning them, unconsumed in the table; a closed reader has none.
PendingAreLost ==
    \A s \in Streams : IsReader(s) =>
        /\ \A id \in streams[s].pending :
              id \in Lost(s) /\ RowOf(table, id).session_ts = NULL
        /\ (streams[s].closed /\ streams[s].conn = "closed") => streams[s].pending = {}

\* C17 as amended: the same, except for what becomes of record k in the
\* table: it is not marked by the failing call; it stays unconsumed when
\* the UPDATE raised, and when the COMMIT raised it stays unconsumed until
\* the reader's next successful commit (its next successful mark, or
\* flush), which stamps it with the reader's stamp, or for good when the
\* reader is closed first.  In either case it is never returned.
C17_FailedMarkSkipsRecord ==
    /\ [](CursorPastPulledRows /\ PendingAreLost)
    /\ [][MarkFailureSurfaced /\ ReadsGoOn /\ LostRowsFrozenOrCommitted]_vars

\* A call marked record 1 and failed on record 2; the next read operation
\* has returned record 3 alone: record 1 is marked, record 2 unconsumed.
C17_ReadWentOnAfterFailure ==
    /\ IsReader(Reader) /\ ~streams[Reader].closed
    /\ unconsumed_at_init[Reader] = {1, 2, 3}
    /\ delivered[Reader] = <<3>>
    /\ ret.s = Reader /\ ret.op \in ReadOps /\ ret.outcome = "ok"
    /\ Stamp(RowOf(table, 1)) = Stamp(streams[Reader])
    /\ RowOf(table, 2).session_ts = NULL
    /\ streams[Reader].row_iterator = <<>>

(* --------------------------------- C18 --------------------------------- *)

\* The ids of the snapshot rows no read operation of reader s has reached.
Unreached(s) == Ids(streams[s].row_iterator)

\* The reader constructed last before stream s; 0 when there is none.
ReaderBefore(s) ==
    IF \E q \in Streams : q < s /\ IsReader(q)
      THEN CHOOSE q \in Streams :
              /\ q < s /\ IsReader(q)
              /\ \A p \in Streams : (p < s /\ IsReader(p)) => p <= q
      ELSE 0

\* The rows the latest reader has not reached are unconsumed, whether it is
\* open or closed.
UnreachedStayUnconsumed ==
    \A s \in Streams :
        (IsReader(s) /\ \A p \in Streams : p > s => ~IsReader(p)) =>
            \A id \in Range(Unreached(s)) : RowOf(table, id).session_ts = NULL

\* close() and with-exit change no row of the table.
CloseConsumesNothing ==
    ret'.op \in {"close", "__exit__"} => table' = table

\* The snapshot of a reader is in ascending id order and holds, in that
\* order, every row the reader before it had not reached, and none of the
\* rows that reader returned.
NextReaderGetsUnreached ==
    \A s \in Streams :
        (ret'.op = "__init__" /\ ret'.s = s /\ streams'[s].mode = "r") =>
            LET snapshot == Ids(streams'[s].row_iterator)
                q        == ReaderBefore(s)
            IN  /\ \A i, j \in DOMAIN snapshot : i < j => snapshot[i] < snapshot[j]
                /\ q # 0 =>
                      /\ SelectSeq(snapshot, LAMBDA id : id \in Range(Unreached(q)))
                            = Unreached(q)
                      /\ Range(delivered[q]) \cap Range(snapshot) = {}

\* C18: closing a reader before it has drained its snapshot consumes
\* nothing further: every snapshot record no read operation had reached at
\* close() keeps session_ts NULL and is, in ascending id order, in the
\* snapshot of the next reader constructed on the table.
C18_CloseLeavesRestUnconsumed ==
    []UnreachedStayUnconsumed /\ [][CloseConsumesNothing /\ NextReaderGetsUnreached]_vars

\* A reader returned a record and was closed with a record unreached; the
\* next reader has just been constructed and its snapshot holds that record.
C18_RestInNextSnapshot ==
    /\ ret.op = "__init__" /\ ret.s = 2 /\ IsReader(2)
    /\ IsReader(1) /\ streams[1].closed
    /\ delivered[1] # <<>>
    /\ Unreached(1) # <<>>
    /\ Range(Unreached(1)) \subseteq Range(Unreached(2))
    /\ \A id \in Range(Unreached(1)) : RowOf(table, id).session_ts = NULL

(* --------------------------------- C19 --------------------------------- *)

\* The stream of the last call was constructed with a mode other than 'r', 'w'.
OtherMode(call) ==
    /\ call.s \in Streams
    /\ streams[call.s].constructed
    /\ streams[call.s].mode \notin {"r", "w"}

\* write, read, readline, readlines, iter() and next().
DataOps == {"write"} \cup ReadOps \cup {"__iter__"}

\* Construction with another mode succeeds, connects, and takes no snapshot;
\* on the open stream the data operations raise UnsupportedOperation while
\* flush and close succeed.
OtherModeOpen ==
    OtherMode(ret) =>
        /\ streams[ret.s].row_iterator = <<>>
        /\ delivered[ret.s] = <<>> /\ written[ret.s] = <<>>
        /\ ret.op = "__init__" =>
              /\ ret.outcome = "ok"
              /\ ~streams[ret.s].closed
              /\ Usable(streams[ret.s])
        /\ (~ret.was_closed /\ ret.op \in DataOps) =>
              (ret.outcome = "UnsupportedOperation" /\ ~streams[ret.s].closed)
        /\ (~ret.was_closed /\ ret.op \in {"flush", "close"}) => ret.outcome = "ok"

\* After close the data operations raise ValueError.
OtherModeClosed ==
    (OtherMode(ret) /\ ret.was_closed /\ ret.op \in DataOps) =>
        ret.outcome = "ValueError"

\* No call on such a stream touches the table.
OtherModeLeavesTable ==
    (ret'.s \in Streams /\ streams'[ret'.s].mode \notin {"r", "w"}) => table' = table

\* C19: construction with a mode other than 'r' or 'w' is not rejected: it
\* connects, takes no snapshot and yields an open stream on which write,
\* read, readline, readlines and iteration fail with UnsupportedOperation
\* without touching the table, while flush and close succeed; after close
\* the same operations fail with ValueError ("closed stream").
C19_UnvalidatedMode ==
    [](OtherModeOpen /\ OtherModeClosed) /\ [][OtherModeLeavesTable]_vars

=============================================================================
